---- MODULE Spec2Model ----
(***************************************************************************)
(* The RPC liveness probe of scripts/check-evm-rpc.py: one run of main()   *)
(* against a JSON-RPC endpoint whose responses are chosen by the           *)
(* environment.  Python strings that the script parses or formats are      *)
(* sequences of one-character strings, so that hex() and int(s, 0) are     *)
(* computed digit by digit.                                                *)
(***************************************************************************)
EXTENDS Integers, Sequences, FiniteSets, TLC

VARIABLES
    provider,    \* args.provider, the first positional argument
    pc,          \* position of main()
    posts,       \* the requests.post calls made so far, in order
    heightResp,  \* what the eth_blockNumber POST returned (NoResponse before)
    logsResp,    \* what the eth_getLogs POST returned (NoResponse before)
    height,      \* main's local `height`
    address,     \* main's local `address`
    stdout,      \* the lines printed so far
    exitCode,    \* the process's exit status once pc = "exited"
    exception    \* the exception that ended the run, "none" otherwise

vars == <<provider, pc, posts, heightResp, logsResp, height, address, stdout,
          exitCode, exception>>

----------------------------------------------------------------------------
(* Bounds of the model *)

\* block heights 0..MaxHeight are all offered as eth_blockNumber results
MaxHeight == 2100

\* the largest number of entries of an eth_getLogs result list
MaxLogs == 2

----------------------------------------------------------------------------
(* Python / JSON values *)

None == [t |-> "None"]
Str(s) == [t |-> "str", s |-> s]
Num(n) == [t |-> "int", n |-> n]
Dict(keys) == [t |-> "dict", keys |-> keys]
List(n) == [t |-> "list", len |-> n]
\* a key that the JSON object does not have
Absent == [t |-> "absent"]

\* Python truth value (`if error:`, `if not height:`, `if not address:`)
Truthy(v) ==
    CASE v.t = "None" -> FALSE
      [] v.t = "str"  -> Len(v.s) > 0
      [] v.t = "int"  -> v.n # 0
      [] v.t = "dict" -> v.keys # {}
      [] v.t = "list" -> v.len > 0

\* dict.get(key) on a parsed JSON object: a missing key and a JSON null both
\* give None
Get(field) == IF field = Absent THEN None ELSE field

----------------------------------------------------------------------------
(* hex() and int(s, 0) *)

LowerDigits == <<"0", "1", "2", "3", "4", "5", "6", "7", "8", "9",
                 "a", "b", "c", "d", "e", "f">>
UpperDigits == <<"0", "1", "2", "3", "4", "5", "6", "7", "8", "9",
                 "A", "B", "C", "D", "E", "F">>

RECURSIVE HexDigitsOf(_)
HexDigitsOf(n) ==
    IF n < 16 THEN <<LowerDigits[n + 1]>>
    ELSE HexDigitsOf(n \div 16) \o <<LowerDigits[(n % 16) + 1]>>

\* Python's hex(): sign, "0x", lower-case digits without leading zeros
hex(n) ==
    IF n < 0 THEN <<"-", "0", "x">> \o HexDigitsOf(-n)
    ELSE <<"0", "x">> \o HexDigitsOf(n)

\* the value of one digit character; 16 for a character that is no digit
DigitValue(c) ==
    IF \E i \in 1..16 : LowerDigits[i] = c
    THEN (CHOOSE i \in 1..16 : LowerDigits[i] = c) - 1
    ELSE IF \E i \in 1..16 : UpperDigits[i] = c
    THEN (CHOOSE i \in 1..16 : UpperDigits[i] = c) - 1
    ELSE 16

ValidDigits(ds, base) ==
    /\ ds # <<>>
    /\ \A i \in 1..Len(ds) : DigitValue(ds[i]) < base

\* variant: the digits are weighted by 10 whatever the base
RECURSIVE DigitsValue_base10(_, _)
DigitsValue_base10(ds, base) ==
    IF ds = <<>> THEN 0
    ELSE DigitsValue_base10(SubSeq(ds, 1, Len(ds) - 1), base) * 10
            + DigitValue(ds[Len(ds)])

RECURSIVE DigitsValue(_, _)
DigitsValue(ds, base) ==
    IF ds = <<>> THEN 0
    ELSE DigitsValue(SubSeq(ds, 1, Len(ds) - 1), base) * base
            + DigitValue(ds[Len(ds)])

Tail2(s) == SubSeq(s, 3, Len(s))

\* int(v, 0): the base is taken from the prefix (0x, 0o, 0b, none = decimal);
\* a decimal literal with a leading zero is accepted only if it is zero; a
\* non-string argument with an explicit base is a TypeError.  The strings of
\* the model hold no white space and no underscores.
int0(v) ==
    IF v.t # "str" THEN [exc |-> "TypeError", val |-> 0]
    ELSE
    LET s == v.s
        signed == Len(s) > 0 /\ s[1] \in {"-", "+"}
        sign == IF signed /\ s[1] = "-" THEN -1 ELSE 1
        body == IF signed THEN Tail(s) ELSE s
        prefixed == Len(body) >= 2 /\ body[1] = "0"
        base == IF prefixed /\ body[2] \in {"x", "X"} THEN 16
                ELSE IF prefixed /\ body[2] \in {"o", "O"} THEN 8
                ELSE IF prefixed /\ body[2] \in {"b", "B"} THEN 2
                ELSE 10
        digits == IF base = 10 THEN body ELSE Tail2(body)
        ok == /\ ValidDigits(digits, base)
              /\ base = 10 /\ digits[1] = "0"
                    => \A i \in 1..Len(digits) : digits[i] = "0"
    IN  IF ok THEN [exc |-> "none", val |-> sign * DigitsValue(digits, base)]
        ELSE [exc |-> "ValueError", val |-> 0]

----------------------------------------------------------------------------
(* Program constants *)

ADDRESSES == [camelotv3 |-> Str("0x22427d20480de289795ca29c3adddb57a568e285")]

\* argparse `choices` of the provider argument
ProviderChoices == {"camelotv3"}

\* the width of the log window in get_logs
BLOCK_WINDOW == 2000

----------------------------------------------------------------------------
(* What the endpoint can answer *)

NoResponse == [kind |-> "none"]

\* requests.post raised: no HTTP response at all
ConnectionFailed == [kind |-> "ConnectionError"]

\* body is "invalid" (not JSON), "array" (JSON, but no object) or "object"
Http(status, body, error, result) ==
    [kind |-> "http", status |-> status, body |-> body,
     error |-> error, result |-> result]

RpcErrorPayload == Dict({"code", "message"})

\* the `error` member: missing, null, an empty object, a JSON-RPC error
\* object, and a string that reads like get_height's own message
ErrorValues ==
    {Absent, None, Dict({}), RpcErrorPayload, Str("no height found")}

BadResponses ==
    {ConnectionFailed,
     Http(404, "invalid", Absent, Absent),
     Http(500, "object", RpcErrorPayload, Absent),
     Http(200, "invalid", Absent, Absent),
     Http(200, "array", Absent, Absent)}

\* heights above the dense range 0..MaxHeight
ExampleHeights == {4095, 4096, 5000, 65535, 65536, 1000000}

\* strings that int(s, 0) accepts without being the output of hex(), and
\* strings that it rejects
OtherHeightStrings ==
    {<<"0", "X", "1", "3", "8", "8">>, <<"0", "x", "0", "b", "b", "8">>,
     <<"0", "x", "1", "F", "4", "A">>, <<"5", "0", "0", "0">>,
     <<"0", "b", "1", "0", "1">>, <<"0", "o", "1", "7">>,
     <<"-", "0", "x", "5">>, <<"+", "0", "x", "1", "0">>,
     <<"0", "0">>, <<"0", "1", "0">>, <<"0", "x">>, <<"0", "x", "g">>,
     <<"-">>, <<"l", "a", "t", "e", "s", "t">>}

FalsyResults == {Absent, None, Str(<<>>), Num(0)}

HeightResults ==
    FalsyResults
    \cup {Num(5000)}
    \cup {Str(hex(n)) : n \in (0..MaxHeight) \cup ExampleHeights}
    \cup {Str(s) : s \in OtherHeightStrings}

\* results paired with every value of `error`
FewHeightResults == {Absent, None, Str(hex(5000)), Str(hex(1000))}

HeightResponses ==
    BadResponses
    \cup {Http(200, "object", Absent, r) : r \in HeightResults}
    \cup {Http(200, "object", e, r) : e \in ErrorValues, r \in FewHeightResults}

LogsResults == {Absent, None} \cup {List(n) : n \in 0..MaxLogs}

LogsResponses ==
    BadResponses
    \cup {Http(200, "object", e, r) : e \in ErrorValues, r \in LogsResults}

\* the provider argument: the registered provider and one that is not
Providers == {"camelotv3", "uniswapv3"}

----------------------------------------------------------------------------
(* The functions of the script *)

Request(method, params) ==
    [jsonrpc |-> "2.0", method |-> method, params |-> params, id |-> 1]

Raise(exc) == [exc |-> exc, out |-> <<>>, result |-> None]
Return(out, v) == [exc |-> "none", out |-> out, result |-> v]

\* print(error) of the error payloads of the model
PyStr(v) ==
    IF v.t = "str" THEN v.s
    ELSE IF v = RpcErrorPayload THEN "{'code': -32000, 'message': 'x'}"
    ELSE "{}"

\* raise_for_status(): an HTTPError for 4xx and 5xx
RaisesForStatus(resp) == resp.status >= 400 /\ resp.status < 600

\* variant: the error is printed and the run goes on (no sys.exit)
rpc_call_noexit(resp) ==
    IF resp.kind = "ConnectionError" THEN Raise("ConnectionError")
    ELSE IF RaisesForStatus(resp) THEN Raise("HTTPError")
    ELSE IF resp.body = "invalid" THEN Raise("JSONDecodeError")
    ELSE IF resp.body # "object" THEN Raise("AttributeError")
    ELSE IF Truthy(Get(resp.error))
    THEN Return(<<PyStr(resp.error)>>, Get(resp.result))
    ELSE Return(<<>>, Get(resp.result))

\* variant: raise_for_status() is not called
rpc_call_nostatus(resp) ==
    IF resp.kind = "ConnectionError" THEN Raise("ConnectionError")
    ELSE IF resp.body = "invalid" THEN Raise("JSONDecodeError")
    ELSE IF resp.body # "object" THEN Raise("AttributeError")
    ELSE IF Truthy(Get(resp.error))
    THEN [exc |-> "SystemExit", out |-> <<PyStr(resp.error)>>, result |-> None]
    ELSE Return(<<>>, Get(resp.result))

\* rpc_call from the return of requests.post on
rpc_call(resp) ==
    IF resp.kind = "ConnectionError" THEN Raise("ConnectionError")
    ELSE IF RaisesForStatus(resp) THEN Raise("HTTPError")
    ELSE IF resp.body = "invalid" THEN Raise("JSONDecodeError")
    ELSE IF resp.body # "object" THEN Raise("AttributeError")
    ELSE IF Truthy(Get(resp.error))
    THEN [exc |-> "SystemExit", out |-> <<PyStr(resp.error)>>, result |-> None]
    ELSE Return(<<>>, Get(resp.result))

\* variant: `if height is None` in place of `if not height`
get_height_none_only(resp) ==
    LET r == rpc_call(resp)
    IN  IF r.exc # "none" THEN r
        ELSE IF r.result = None THEN Return(<<"no height found">>, None)
        ELSE LET i == int0(r.result)
             IN  IF i.exc # "none" THEN Raise(i.exc)
                 ELSE Return(<<>>, Num(i.val))

\* get_height from the return of requests.post on
get_height(resp) ==
    LET r == rpc_call(resp)
    IN  IF r.exc # "none" THEN r
        ELSE IF ~Truthy(r.result) THEN Return(<<"no height found">>, None)
        ELSE LET i == int0(r.result)
             IN  IF i.exc # "none" THEN Raise(i.exc)
                 ELSE Return(<<>>, Num(i.val))

\* variant: the window is one block short
LogParams_short(h, a) ==
    [fromBlock |-> hex(h - BLOCK_WINDOW + 1), toBlock |-> hex(h),
     address |-> <<a>>, topics |-> <<>>]

\* the params of get_logs
LogParams(h, a) ==
    [fromBlock |-> hex(h - BLOCK_WINDOW), toBlock |-> hex(h),
     address |-> <<a>>, topics |-> <<>>]

\* variant: the provider argument has no `choices`
parse_args_any(p) == TRUE

\* argparse accepts the provider argument
parse_args(p) == p \in ProviderChoices

\* ADDRESSES.get(provider)
LookupAddress(p) == IF p \in DOMAIN ADDRESSES THEN ADDRESSES[p] ELSE None

\* variant: `if not logs` in place of `if logs == None`
LogsNote_falsy(logs) ==
    IF ~Truthy(logs) THEN <<"this shouldn't happen">> ELSE <<>>

\* lines 70-71: what main prints about the logs before "ok"
LogsNote(logs) == IF logs = None THEN <<"this shouldn't happen">> ELSE <<>>

----------------------------------------------------------------------------
(* One run of main() *)

Init ==
    /\ provider \in Providers
    /\ pc = "parse_args"
    /\ posts = <<>>
    /\ heightResp = NoResponse
    /\ logsResp = NoResponse
    /\ height = None
    /\ address = None
    /\ stdout = <<>>
    /\ exitCode = None
    /\ exception = "none"

\* line 61: argparse exits with status 2 on a provider outside `choices`
ParseArgs ==
    /\ pc = "parse_args"
    /\ IF parse_args(provider)
       THEN /\ pc' = "get_height"
            /\ UNCHANGED <<exitCode, exception>>
       ELSE /\ pc' = "exited"
            /\ exitCode' = Num(2)
            /\ exception' = "SystemExit"
    /\ UNCHANGED <<provider, posts, heightResp, logsResp, height, address, stdout>>

\* lines 63, 41, 21-27: the eth_blockNumber request is posted
SendHeightRequest ==
    /\ pc = "get_height"
    /\ posts' = Append(posts, Request("eth_blockNumber", <<>>))
    /\ pc' = "await_height"
    /\ UNCHANGED <<provider, heightResp, logsResp, height, address, stdout,
                   exitCode, exception>>

\* lines 27-37, 42-46: requests.post returns or raises, get_height finishes;
\* sys.exit(1) and an uncaught exception both end the process with status 1
RecvHeightResponse ==
    /\ pc = "await_height"
    /\ \E resp \in HeightResponses :
        LET r == get_height(resp)
        IN  /\ heightResp' = resp
            /\ stdout' = stdout \o r.out
            /\ IF r.exc = "none"
               THEN /\ height' = r.result
                    /\ pc' = "resolve"
                    /\ UNCHANGED <<exitCode, exception>>
               ELSE /\ pc' = "exited"
                    /\ exitCode' = Num(1)
                    /\ exception' = r.exc
                    /\ UNCHANGED height
    /\ UNCHANGED <<provider, posts, logsResp, address>>

\* lines 65-67
ResolveAddress ==
    /\ pc = "resolve"
    /\ address' = LookupAddress(provider)
    /\ stdout' = IF Truthy(address') THEN stdout
                 ELSE Append(stdout, "no address found for provider " \o provider)
    /\ pc' = "get_logs"
    /\ UNCHANGED <<provider, posts, heightResp, logsResp, height, exitCode,
                   exception>>

\* lines 69, 50-57, 21-27: the params are built, the eth_getLogs request is
\* posted; None - 2000 is a TypeError
SendLogsRequest ==
    /\ pc = "get_logs"
    /\ IF height.t = "int"
       THEN /\ posts' = Append(posts,
                  Request("eth_getLogs", <<LogParams(height.n, address)>>))
            /\ pc' = "await_logs"
            /\ UNCHANGED <<exitCode, exception>>
       ELSE /\ pc' = "exited"
            /\ exitCode' = Num(1)
            /\ exception' = "TypeError"
            /\ UNCHANGED posts
    /\ UNCHANGED <<provider, heightResp, logsResp, height, address, stdout>>

\* variant: a failed eth_getLogs call is retried once
RecvLogsResponse_retry ==
    /\ pc = "await_logs"
    /\ \E resp \in LogsResponses :
        LET r == rpc_call(resp)
        IN  /\ logsResp' = resp
            /\ IF r.exc = "none"
               THEN /\ stdout' = stdout \o r.out \o LogsNote(r.result) \o <<"ok">>
                    /\ pc' = "exited"
                    /\ exitCode' = Num(0)
                    /\ UNCHANGED exception
               ELSE IF r.exc \in {"HTTPError", "ConnectionError"} /\ Len(posts) < 3
               THEN /\ pc' = "get_logs"
                    /\ UNCHANGED <<stdout, exitCode, exception>>
               ELSE /\ stdout' = stdout \o r.out
                    /\ pc' = "exited"
                    /\ exitCode' = Num(1)
                    /\ exception' = r.exc
    /\ UNCHANGED <<provider, posts, heightResp, height, address>>

\* lines 27-37, 70-73: requests.post returns or raises, main finishes
RecvLogsResponse ==
    /\ pc = "await_logs"
    /\ \E resp \in LogsResponses :
        LET r == rpc_call(resp)
        IN  /\ logsResp' = resp
            /\ pc' = "exited"
            /\ IF r.exc = "none"
               THEN /\ stdout' = stdout \o r.out \o LogsNote(r.result) \o <<"ok">>
                    /\ exitCode' = Num(0)
                    /\ UNCHANGED exception
               ELSE /\ stdout' = stdout \o r.out
                    /\ exitCode' = Num(1)
                    /\ exception' = r.exc
    /\ UNCHANGED <<provider, posts, heightResp, height, address>>

Next ==
    \/ ParseArgs
    \/ SendHeightRequest
    \/ RecvHeightResponse
    \/ ResolveAddress
    \/ SendLogsRequest
    \/ RecvLogsResponse

Spec == Init /\ [][Next]_vars

\* requests.post blocks until the endpoint answers or the connection fails;
\* every other step is straight-line code
FairSpec == Spec /\ WF_vars(Next)

----------------------------------------------------------------------------
(* Vocabulary of the properties *)

Exited == pc = "exited"
Printed(line) == \E i \in 1..Len(stdout) : stdout[i] = line
PrintedOk == Printed("ok")
LogsRequested == \E i \in 1..Len(posts) : posts[i].method = "eth_getLogs"
Failed == Exited /\ exitCode # Num(0) /\ ~PrintedOk

\* the POST returned an HTTP response that raise_for_status lets through and
\* whose body is a JSON object
IsObject(resp) ==
    resp.kind = "http" /\ resp.status >= 200 /\ resp.status < 300
        /\ resp.body = "object"
HasErrorField(resp) == resp.kind = "http" /\ resp.body = "object" /\ resp.error # Absent
HasTruthyError(resp) ==
    resp.kind = "http" /\ resp.body = "object" /\ Truthy(Get(resp.error))
TransportFailed(resp) ==
    resp.kind = "ConnectionError" \/ (resp.kind = "http" /\ ~(resp.status >= 200 /\ resp.status < 300))
\* the eth_blockNumber call went through without an RPC error and gave no
\* usable result
NoHeightCase ==
    IsObject(heightResp) /\ ~HasTruthyError(heightResp)
        /\ ~Truthy(Get(heightResp.result))
\* the eth_getLogs call went through without an RPC error and gave null
NullLogsCase ==
    IsObject(logsResp) /\ ~HasTruthyError(logsResp) /\ Get(logsResp.result) = None

----------------------------------------------------------------------------
(* C1 *)

\* C1 as stated: whenever the eth_blockNumber response carries an `error`
\* member, no eth_getLogs request is ever posted, "ok" is never printed and
\* the run, once over, has a non-zero exit status.
C1_ErrorFieldIsFatal ==
    HasErrorField(heightResp) =>
        /\ ~LogsRequested
        /\ ~PrintedOk
        /\ Exited => exitCode # Num(0)

\* C1 amended: whenever the eth_blockNumber response carries a truthy
\* (non-null, non-empty) `error` member, the run has failed with a non-zero
\* exit, "ok" is not printed and no eth_getLogs request is posted; with a
\* status that raise_for_status lets through the run ends in sys.exit(1)
\* after printing the payload.
C1_TruthyErrorIsFatal ==
    HasTruthyError(heightResp) =>
        /\ Failed
        /\ ~LogsRequested
        /\ Len(posts) = 1
        /\ IsObject(heightResp) =>
              /\ exception = "SystemExit"
              /\ exitCode = Num(1)
              /\ stdout = <<PyStr(heightResp.error)>>

C1_Witness ==
    /\ heightResp = Http(200, "object", RpcErrorPayload, Str(hex(5000)))
    /\ Exited

----------------------------------------------------------------------------
(* C2 *)

\* the response is an HTTP 2xx whose body is no JSON object or has neither a
\* `result` nor an `error` member
Malformed(resp) ==
    /\ resp.kind = "http" /\ resp.status >= 200 /\ resp.status < 300
    /\ \/ resp.body # "object"
       \/ resp.result = Absent /\ resp.error = Absent

CallWentWell(resp) ==
    IsObject(resp) /\ ~Malformed(resp) /\ ~HasErrorField(resp)

AnErrorOccurred ==
    \/ provider \notin DOMAIN ADDRESSES
    \/ TransportFailed(heightResp) \/ TransportFailed(logsResp)
    \/ HasErrorField(heightResp) \/ HasErrorField(logsResp)
    \/ Malformed(heightResp) \/ Malformed(logsResp)
    \/ NoHeightCase

\* C2 as stated: "ok" is printed only if both calls completed with a 2xx
\* status, a well-formed body and no `error` member, the provider is
\* registered and the height is a usable (non-negative) number; and once an
\* error of the taxonomy has occurred "ok" is never printed and the exit
\* status is never 0.
C2_NoSilentContinuation ==
    /\ PrintedOk =>
          /\ CallWentWell(heightResp)
          /\ CallWentWell(logsResp)
          /\ provider \in DOMAIN ADDRESSES
          /\ height.t = "int" /\ height.n >= 0
    /\ AnErrorOccurred =>
          /\ ~PrintedOk
          /\ Exited => exitCode # Num(0)

----------------------------------------------------------------------------
(* C3 *)

\* C3: a run whose provider is not a key of ADDRESSES never posts a request:
\* it is rejected before the eth_blockNumber request, ends with a non-zero
\* exit status and never prints "ok".
C3_UnknownProviderNoCalls ==
    provider \notin DOMAIN ADDRESSES =>
        /\ posts = <<>>
        /\ heightResp = NoResponse /\ logsResp = NoResponse
        /\ pc \in {"parse_args", "exited"}
        /\ ~PrintedOk
        /\ Exited => exitCode = Num(2) /\ exception = "SystemExit"

C3_Witness == provider = "uniswapv3" /\ Exited

----------------------------------------------------------------------------
(* C4 *)

\* C4: when the eth_blockNumber response has no (truthy) error and a falsy
\* result, "no height found" is printed, no eth_getLogs request is posted,
\* "ok" is never printed and the run ends with a TypeError and exit status 1;
\* no other run ends with that output and that exception, so the outcome is
\* told apart from an RPC error (sys.exit after printing the payload, even a
\* payload that reads "no height found") and from every other failure.
C4_NoHeightFails ==
    /\ NoHeightCase =>
          /\ stdout = <<"no height found">>
          /\ ~LogsRequested
          /\ Len(posts) = 1
          /\ pc \in {"resolve", "get_logs", "exited"}
          /\ Exited => exception = "TypeError" /\ exitCode = Num(1)
    /\ ~NoHeightCase /\ Printed("no height found") =>
          Exited /\ exception = "SystemExit"
    /\ ~NoHeightCase /\ Exited =>
          ~(stdout = <<"no height found">> /\ exception = "TypeError")

C4_Witness ==
    /\ heightResp = Http(200, "object", Absent, Str(<<>>))
    /\ Exited

----------------------------------------------------------------------------
(* C5 *)

\* C5: when the eth_getLogs response has a null result and no error, the run
\* ends with exit status 0 and prints "this shouldn't happen" before "ok";
\* no other finished run prints that line, so the outcome is told apart from
\* a success with logs (only "ok") and from a failed request (no "ok").
C5_NullLogsRecorded ==
    Exited /\ logsResp # NoResponse =>
        /\ NullLogsCase =>
              /\ exitCode = Num(0)
              /\ exception = "none"
              /\ stdout = <<"this shouldn't happen", "ok">>
        /\ ~NullLogsCase => ~Printed("this shouldn't happen")
        /\ ~NullLogsCase /\ exitCode = Num(0) => stdout = <<"ok">>
        /\ exitCode # Num(0) => ~PrintedOk

C5_Witness ==
    /\ logsResp = Http(200, "object", Absent, None)
    /\ Exited

----------------------------------------------------------------------------
(* C6, C7 *)

LogsRequests == {i \in 1..Len(posts) : posts[i].method = "eth_getLogs"}

\* C6: for a decoded height h >= 2000 the eth_getLogs request carries one
\* params object with toBlock = hex(h), fromBlock = hex(h - 2000), address =
\* [the provider's registered address] and topics = []; both bounds decode to
\* heights 2000 apart, and h = 5000 gives "0xbb8" and "0x1388".
C6_LogWindow ==
    \A i \in LogsRequests :
        height.t = "int" /\ height.n >= 2000 =>
            LET q == posts[i].params[1]
            IN  /\ Len(posts[i].params) = 1
                /\ height.n = int0(heightResp.result).val
                /\ q.toBlock = hex(height.n)
                /\ q.fromBlock = hex(height.n - 2000)
                /\ int0(Str(q.toBlock)).val = height.n
                /\ int0(Str(q.fromBlock)).val = height.n - 2000
                /\ q.address = <<ADDRESSES[provider]>>
                /\ q.topics = <<>>
                /\ height.n = 5000 =>
                      /\ q.fromBlock = <<"0", "x", "b", "b", "8">>
                      /\ q.toBlock = <<"0", "x", "1", "3", "8", "8">>

C6_Witness ==
    /\ LogsRequests # {}
    /\ heightResp = Http(200, "object", Absent, Str(<<"0", "x", "1", "3", "8", "8">>))

\* C7: for a decoded height 0 <= h < 2000 no eth_getLogs request is posted
\* whose fromBlock is a negative hex string.
C7_NoNegativeFromBlock ==
    height.t = "int" /\ height.n >= 0 /\ height.n < 2000 =>
        \A i \in LogsRequests : Head(posts[i].params[1].fromBlock) # "-"

----------------------------------------------------------------------------
(* C8 *)

Rank(p) ==
    CASE p = "parse_args"   -> 0
      [] p = "get_height"   -> 1
      [] p = "await_height" -> 2
      [] p = "resolve"      -> 3
      [] p = "get_logs"     -> 4
      [] p = "await_logs"   -> 5
      [] p = "exited"       -> 6

C8_Requests ==
    /\ Len(posts) <= 2
    /\ Len(posts) >= 1 => posts[1].method = "eth_blockNumber"
    /\ heightResp # NoResponse => Len(posts) >= 1
    /\ logsResp # NoResponse => Len(posts) = 2
    /\ Len(posts) < 2 => Rank(pc) <= 4 \/ Exited
    /\ Len(posts) = 2 =>
          /\ posts[2].method = "eth_getLogs"
          /\ Rank(pc) >= 5
          /\ IsObject(heightResp)
          /\ int0(Str(posts[2].params[1].toBlock)).val
                = int0(heightResp.result).val

C8_Step ==
    /\ Rank(pc') > Rank(pc)
    /\ \/ posts' = posts
       \/ Len(posts') = Len(posts) + 1 /\ SubSeq(posts', 1, Len(posts)) = posts

\* C8: a run only moves forward through parse_args, get_height,
\* await_height, resolve, get_logs, await_logs, exited; it posts at most two
\* requests, eth_blockNumber first and eth_getLogs second, the second only
\* after the first was answered and with the height of that answer; nothing
\* is posted twice; and if every POST returns or raises, the run ends.
C8_LinearRun == [](C8_Requests) /\ [][C8_Step]_vars /\ <>Exited

C8_Witness == Exited /\ Len(posts) = 2 /\ logsResp = ConnectionFailed

----------------------------------------------------------------------------
(* C9 *)

Heights == (0..MaxHeight) \cup ExampleHeights

HeightResultIs(n) ==
    /\ IsObject(heightResp)
    /\ ~HasTruthyError(heightResp)
    /\ heightResp.result = Str(hex(n))

\* C9: for every height n >= 0 of the model, when eth_blockNumber answers
\* hex(n) the script decodes it to n with int(s, 0), goes on to the logs
\* call, and the toBlock it encodes with hex() is the answered string again.
C9_RoundTrip ==
    (pc \in {"resolve", "await_logs"} \/ (Exited /\ Len(posts) = 1)) =>
        \A n \in Heights :
            HeightResultIs(n) =>
                /\ ~Exited
                /\ height = Num(n)
                /\ pc = "await_logs" =>
                      posts[2].params[1].toBlock = heightResp.result.s

C9_Witness ==
    /\ pc = "await_logs"
    /\ heightResp.result = Str(<<"0", "x", "f", "f", "f", "f">>)
    /\ posts[2].params[1].toBlock = <<"0", "x", "f", "f", "f", "f">>

----------------------------------------------------------------------------
(* C10 *)

\* C10 as stated: an `error` member is the only failure that stops the run
\* (exit status 1); a run that ends otherwise has printed "ok".
C10_OnlyErrorFieldStops ==
    Exited =>
        IF HasTruthyError(heightResp) \/ HasTruthyError(logsResp)
        THEN exitCode = Num(1) /\ ~PrintedOk
        ELSE PrintedOk

\* C10 amended: of the failure paths only a null or missing eth_getLogs
\* result prints a message and falls through to "ok" (exit status 0).  A
\* truthy `error` member prints the payload and exits with status 1; a
\* failed transport (connection error, 4xx/5xx) and a body that is no JSON
\* object end the run with an uncaught exception and status 1; an empty or
\* falsy height prints "no height found" and ends the run with a TypeError
\* (status 1) before the logs request; an unknown provider is rejected by
\* argparse with status 2 before any request.  None of these prints "ok".
C10_FailurePaths ==
    Exited =>
        /\ exitCode \in {Num(0), Num(1), Num(2)}
        /\ PrintedOk <=> exitCode = Num(0)
        /\ provider \notin DOMAIN ADDRESSES =>
              exitCode = Num(2) /\ stdout = <<>> /\ posts = <<>>
        /\ \A resp \in {heightResp, logsResp} :
              /\ TransportFailed(resp) =>
                    /\ exitCode = Num(1)
                    /\ exception = (IF resp.kind = "http" THEN "HTTPError"
                                    ELSE "ConnectionError")
              /\ IsObject(resp) /\ HasTruthyError(resp) =>
                    /\ exitCode = Num(1)
                    /\ exception = "SystemExit"
                    /\ stdout = <<PyStr(resp.error)>>
              /\ resp.kind = "http" /\ ~TransportFailed(resp)
                    /\ resp.body # "object" =>
                    /\ exitCode = Num(1)
                    /\ exception = (IF resp.body = "invalid"
                                    THEN "JSONDecodeError" ELSE "AttributeError")
        /\ NoHeightCase =>
              /\ exitCode = Num(1)
              /\ exception = "TypeError"
              /\ stdout = <<"no height found">>
              /\ Len(posts) = 1
        /\ NullLogsCase =>
              exitCode = Num(0) /\ stdout = <<"this shouldn't happen", "ok">>
        /\ exitCode = Num(0) /\ ~NullLogsCase => stdout = <<"ok">>

C10_Witness ==
    /\ Exited
    /\ heightResp = Http(404, "invalid", Absent, Absent)
    /\ exception = "HTTPError"

====
